---- MODULE Spec2Model ----
(***************************************************************************)
(* Modbus -> OPC UA bridge (server.js): the device list, the per-device    *)
(* Modbus clients, the OPC UA variables, the setInterval poll timers and   *)
(* the asynchronous read cycles, as a state machine.  One action is the    *)
(* code that runs between two awaits of the Node.js event loop.            *)
(***************************************************************************)
EXTENDS Integers, Sequences, FiniteSets, Bags, TLC

(* ------------------------------ bounds -------------------------------- *)
\* device objects ever created (config records loaded + POST bodies accepted)
MaxObjs == 2
\* read cycles (readDeviceData invocations) in flight at once, all devices
MaxCycles == 2
\* ids an API caller or a configuration file may supply: 1..NumIds
NumIds == 1

Slots == 1..MaxObjs
\* Date.now().toString() of line 72, one fresh id per device object
GenId(s) == NumIds + s
AllIds == 1..(NumIds + MaxObjs)

(* --------------------------- register codec --------------------------- *)
\* Values are tagged tuples: <<"u">> undefined, <<"n", i>> number,
\* <<"nan">> the number NaN, <<"b", t>> boolean, <<"f", hi, lo>> the float
\* whose IEEE-754 single precision bit pattern is hi*65536+lo.
Undef == <<"u">>
Num(i) == <<"n", i>>
NaN == <<"nan">>
Bool(b) == <<"b", b>>

\* the 16-bit register words and the coil bits a device answers with
Words == {40000}
Bits == {TRUE, FALSE}
\* the words of a two-register answer: both sides of bit 15 of the high word
WideWords == {1, 40000}
\* the words a register swept over its range holds: the ends of the unsigned
\* range and both sides of bit 15
BoundaryWords == {0, 1, 32767, 32768, 65535}

TwoTo16 == 65536
TwoTo15 == 32768

\* JavaScript ToNumber of one element of data.data
ToNumber(x) == IF x[1] = "b" THEN (IF x[2] THEN 1 ELSE 0) ELSE x[2]

\* JavaScript a << 16: ToInt32(a * 2^16).  Only the low 16 bits of a stay
\* in the 32-bit result, and bit 15 of a becomes its sign bit, so the value
\* is m * 2^16 for m < 2^15 and m * 2^16 - 2^32 = (m - 2^16) * 2^16 otherwise
\* (written so that no intermediate value leaves the 32-bit range).
Shl16(x) ==
    LET m == ToNumber(x) % TwoTo16
    IN  IF m >= TwoTo15 THEN (m - TwoTo16) * TwoTo16 ELSE m * TwoTo16

\* a count that takes every data type for a single register
getRegisterCountOne(dataType) == 1

getRegisterCount(dataType) ==
    CASE dataType = "float" -> 2
      [] dataType = "int32" -> 2
      [] dataType = "uint32" -> 2
      [] OTHER -> 1

\* a decoding that hands back the first word as it is
convertModbusDataRaw(data, dataType) == data[1]

\* data is the sequence data.data of tagged elements
convertModbusData(data, dataType) ==
    CASE dataType = "float" ->
            \* Buffer.writeUInt16BE writes +value: 1 or 0 for a boolean, and
            \* 0 for the NaN of a missing element
            <<"f", ToNumber(data[1]),
                   IF Len(data) >= 2 THEN ToNumber(data[2]) ELSE 0>>
      [] dataType \in {"int32", "uint32"} ->
            \* number + undefined is NaN
            IF Len(data) >= 2
            THEN Num(Shl16(data[1]) + ToNumber(data[2]))
            ELSE NaN
      [] dataType = "int16" ->
            IF ToNumber(data[1]) > TwoTo15 - 1
            THEN Num(ToNumber(data[1]) - TwoTo16)
            ELSE data[1]
      [] dataType = "uint16" -> data[1]
      [] dataType = "boolean" ->
            Bool(IF data[1][1] = "b" THEN data[1][2] ELSE data[1][2] # 0)
      [] OTHER -> data[1]

(* ------------------------------- tags --------------------------------- *)
\* a tag of device.tags; address 0 is a register that holds one word,
\* address 1 one that is swept over its range
TagAt(n, rt, dt, a) ==
    [name |-> n, registerType |-> rt, dataType |-> dt, address |-> a]
Tag(n, rt, dt) == TagAt(n, rt, dt, 0)

\* the words the register at an address can hold
RegisterWords(a) == IF a = 0 THEN Words ELSE BoundaryWords

\* the tag lists a device record may carry (req.body.tags / devices.json)
TagLists ==
    << << Tag("t1", "coil", "boolean"), Tag("t2", "holding", "int16") >>,
       << Tag("t1", "holding", "int16") >>,
       << >>,
       << Tag("t1", "holding", "int16"), Tag("t1", "holding", "int16") >>,
       << Tag("t1", "holding", "uint32") >>,
       << Tag("t1", "holding", "int32") >>,
       << Tag("t1", "coil", "int32") >>,
       << Tag("t1", "discrete", "float") >>,
       << Tag("t1", "coil", "uint16") >>,
       << Tag("t1", "holding", "float") >>,
       << TagAt("t1", "input", "uint16", 1) >>,
       << TagAt("t1", "holding", "int16", 1) >>,
       << TagAt("t1", "input", "boolean", 1) >> >>

\* the empty tag list
EmptyTags == 3

TagNames == {"t1", "t2"}
TagListIds == 1..Len(TagLists)
\* the tag lists of the bodies POSTed
PostTagLists == {2, 3}
MaxTagCount == CHOOSE n \in 0..4 : /\ \A t \in TagListIds : Len(TagLists[t]) <= n
                                   /\ \E t \in TagListIds : Len(TagLists[t]) = n

\* what a read of this tag can return in data.data: the words of the
\* registers asked for, or for one coil or discrete input the bit asked for
\* followed by the cleared padding bits of its byte (one of them is kept)
Answers(tag) ==
    IF tag.registerType \in {"coil", "discrete"}
    THEN { << Bool(b), Bool(FALSE) >> : b \in Bits }
    ELSE IF getRegisterCount(tag.dataType) = 2
         THEN { << Num(a), Num(b) >> : a \in WideWords, b \in WideWords }
         ELSE { << Num(a) >> : a \in RegisterWords(tag.address) }

(* ------------------------------- state -------------------------------- *)
VARIABLES
    mainPc,          \* where main() stands
    configFile,      \* devices.json
    devices,         \* the devices array: device objects in order
    nObjs,           \* device objects created so far
    objId,           \* device.id
    objType,         \* device.type
    objTags,         \* device.tags, as an index into TagLists
    connected,       \* device.connected (truthy)
    currentValue,    \* tag.currentValue of each tag of each device object
    modbusClients,   \* Map id -> client; the client made for object s is s
    portOpen,        \* whether the port of client s is open
    opcuaVariables,  \* Map id -> Map tag name -> variable (its owner object)
    sinkValue,       \* value last set on the OPC UA variable (owner, name)
    timers,          \* setInterval timers running for each device object
    cyc              \* the invocations of readDeviceData in flight, a bag

vars == << mainPc, configFile, devices, nObjs, objId, objType, objTags, connected,
           currentValue, modbusClients, portOpen, opcuaVariables, sinkValue,
           timers, cyc >>

\* one invocation of readDeviceData: pc is the await it stands at, dev the
\* device object, client the client it fetched on line 270, idx the tag of
\* the loop, err the first exception its catch (line 306) caught ("read": the
\* read rejected, "sink": setValueFromSource threw), got the values it
\* decoded so far, by tag
Idle == [pc |-> "idle", dev |-> 0, client |-> 0, idx |-> 0, err |-> "none",
         got |-> << >>]

NoVars == [n \in TagNames |-> 0]

\* the values of device.type: the two connectToDevice knows, and any other
\* non-empty string, which the check of line 66 lets through as well
Types == {"tcp", "rtu", "other"}
\* the types connectToDevice opens a transport for (lines 247-256)
Transports == {"tcp", "rtu"}

\* a record of devices.json
CfgRecOf(i, ty, c, t) == [id |-> i, type |-> ty, connected |-> c, tags |-> t]
CfgRec(i, c, t) == CfgRecOf(i, "tcp", c, t)

\* contents devices.json can have when the process starts: what an earlier
\* run saved (JSON.stringify(devices) keeps the connected flag), or nothing
ConfigFiles ==
    { [valid |-> FALSE, devs |-> << >>],
      [valid |-> TRUE, devs |-> << >>],
      [valid |-> TRUE, devs |-> << CfgRec(1, TRUE, 2) >>] }

TagsOf(s) == TagLists[objTags[s]]

Registered(s) == \E i \in 1..Len(devices) : devices[i] = s

\* the state once the module is loaded (lines 28-30), with devices.json as
\* one of files
InitWith(files) ==
    /\ mainPc = "start"
    /\ configFile \in files
    /\ devices = << >>
    /\ nObjs = 0
    /\ objId = [s \in Slots |-> 0]
    /\ objType = [s \in Slots |-> "tcp"]
    /\ objTags = [s \in Slots |-> EmptyTags]
    /\ connected = [s \in Slots |-> FALSE]
    /\ currentValue = [s \in Slots |-> << >>]
    /\ modbusClients = [i \in AllIds |-> 0]
    /\ portOpen = [s \in Slots |-> FALSE]
    /\ opcuaVariables = [i \in AllIds |-> NoVars]
    /\ sinkValue = [s \in Slots |-> [n \in TagNames |-> Undef]]
    /\ timers = [s \in Slots |-> 0]
    /\ cyc = EmptyBag

Init == InitWith(ConfigFiles)

(* ------------------------------ helpers ------------------------------- *)
Min(S) == CHOOSE x \in S : \A y \in S : x <= y

\* saveDevicesConfig: JSON.stringify(devices) written to devices.json
saveDevicesConfig(devs, ids, tys, conn, tgs) ==
    [valid |-> TRUE,
     devs |-> [i \in 1..Len(devs) |->
                 CfgRecOf(ids[devs[i]], tys[devs[i]], conn[devs[i]],
                          tgs[devs[i]])]]

\* initializeOPCUADevice up to (not including) tag k+1: one variable per
\* tag, kept in opcuaVariables under device.id and tag.name
initializeOPCUADevice(v, s, id, tags, k) ==
    [v EXCEPT ![id] =
        [n \in TagNames |->
            IF \E i \in 1..k : tags[i].name = n THEN s ELSE @[n]]]

\* initializeModbusClient: a new client, stored under device.id
initializeModbusClient(m, s, id) == [m EXCEPT ![id] = s]

\* startDevicePolling: one more setInterval timer for the device object
startDevicePolling(t, s) == [t EXCEPT ![s] = @ + 1]

\* removeDeviceVariables: dispose the variables and drop the id's map
removeDeviceVariables(v, id) == [v EXCEPT ![id] = NoVars]

\* how a call into the address space can end for a device with these tags:
\* <<TRUE, Len(tags)>> all variables made, <<FALSE, k>> it threw after k
SinkOutcomes(tags) ==
    { << TRUE, Len(tags) >> } \cup
    { << FALSE, k >> : k \in 0..(IF Len(tags) = 0 THEN 0 ELSE Len(tags) - 1) }

\* client.close(): the port closes and the client's "close" handler
\* (line 232) clears the connected flag of the device the client was made for
ClosePort(po, s) == [po EXCEPT ![s] = FALSE]
CloseFlag(cn, po, s) == IF po[s] THEN [cn EXCEPT ![s] = FALSE] ELSE cn

(* ------------------------------ startup ------------------------------- *)
\* main, lines 138-148: loadDevicesConfig, webApp.listen, await initialize
MainLoad ==
    /\ mainPc = "start"
    /\ LET recs == IF configFile.valid THEN configFile.devs ELSE << >>
           n == Len(recs)
       IN  /\ n <= MaxObjs
           /\ devices' = [i \in 1..n |-> i]
           /\ nObjs' = n
           /\ objId' = [s \in Slots |-> IF s <= n THEN recs[s].id ELSE 0]
           /\ objType' = [s \in Slots |->
                            IF s <= n THEN recs[s].type ELSE "tcp"]
           /\ objTags' = [s \in Slots |->
                            IF s <= n THEN recs[s].tags ELSE EmptyTags]
           /\ connected' = [s \in Slots |-> s <= n /\ recs[s].connected]
           /\ currentValue' = [s \in Slots |->
                 IF s <= n
                 THEN [i \in 1..Len(TagLists[recs[s].tags]) |-> Undef]
                 ELSE << >>]
    /\ mainPc' = "initialize"
    /\ UNCHANGED << configFile, modbusClients, portOpen, opcuaVariables,
                    sinkValue, timers, cyc >>

RECURSIVE InitAllVariables(_, _, _)
InitAllVariables(v, devs, j) ==
    IF j = 0 THEN v
    ELSE initializeOPCUADevice(InitAllVariables(v, devs, j - 1), devs[j],
                               objId[devs[j]], TagsOf(devs[j]),
                               Len(TagsOf(devs[j])))

RECURSIVE InitAllClients(_, _, _)
InitAllClients(m, devs, j) ==
    IF j = 0 THEN m
    ELSE initializeModbusClient(InitAllClients(m, devs, j - 1), devs[j],
                                objId[devs[j]])

\* main, lines 149-169: server.initialize() returned; devices.forEach makes
\* the variables and the client of every device; then await server.start().
\* j devices are initialised; when j < devices.length the address space threw
\* on device j+1 after k of its tags and main's catch ends the startup.
MainInitDevices(j, k) ==
    /\ mainPc = "initialize"
    /\ j \in 0..Len(devices)
    /\ IF j = Len(devices)
       THEN /\ k = 0
            /\ opcuaVariables' = InitAllVariables(opcuaVariables, devices, j)
            /\ mainPc' = "starting"
       ELSE /\ << FALSE, k >> \in SinkOutcomes(TagsOf(devices[j + 1]))
            /\ opcuaVariables' =
                  initializeOPCUADevice(
                      InitAllVariables(opcuaVariables, devices, j),
                      devices[j + 1], objId[devices[j + 1]],
                      TagsOf(devices[j + 1]), k)
            /\ mainPc' = "failed"
    /\ modbusClients' = InitAllClients(modbusClients, devices, j)
    /\ UNCHANGED << configFile, devices, nObjs, objId, objType, objTags, connected,
                    currentValue, portOpen, sinkValue, timers, cyc >>

RECURSIVE StartAll(_, _, _)
StartAll(t, devs, j) ==
    IF j = 0 THEN t ELSE startDevicePolling(StartAll(t, devs, j - 1), devs[j])

\* startAllDevicesPolling: devices.forEach(startDevicePolling)
startAllDevicesPolling(t, devs) == StartAll(t, devs, Len(devs))

\* main, lines 170-174: server.start() returned; startAllDevicesPolling
MainStartPolling ==
    /\ mainPc = "starting"
    /\ timers' = startAllDevicesPolling(timers, devices)
    /\ mainPc' = "running"
    /\ UNCHANGED << configFile, devices, nObjs, objId, objType, objTags, connected,
                    currentValue, modbusClients, portOpen, opcuaVariables,
                    sinkValue, cyc >>

(* -------------------------------- API --------------------------------- *)
\* the web server answers from webApp.listen on (line 143)
Listening == mainPc \in {"initialize", "starting", "running", "failed"}

\* POST /api/devices with a body failing the check of line 66: 400
PostInvalid ==
    /\ Listening
    /\ UNCHANGED vars

\* POST /api/devices, lines 61-85, with a body passing line 66.
\* ty: the body's type; id = 0: the body has no id; conn: the body carries a
\* truthy "connected"; tl: its tag list; out: how initializeOPCUADevice ends.
PostDevice(ty, id, conn, tl, out) ==
    /\ Listening
    /\ nObjs < MaxObjs
    /\ out \in SinkOutcomes(TagLists[tl])
    /\ LET s == nObjs + 1
           newId == IF id = 0 THEN GenId(s) ELSE id
           \* server.engine.addressSpace is null until initialize() is done:
           \* initializeDevice throws on line 183 and the handler answers 500
           built == mainPc # "initialize"
       IN  /\ nObjs' = s
           /\ objId' = [objId EXCEPT ![s] = newId]
           /\ objType' = [objType EXCEPT ![s] = ty]
           /\ objTags' = [objTags EXCEPT ![s] = tl]
           /\ connected' = [connected EXCEPT ![s] = conn]
           /\ currentValue' = [currentValue EXCEPT ![s] =
                                 [i \in 1..Len(TagLists[tl]) |-> Undef]]
           /\ devices' = Append(devices, s)
           /\ configFile' = saveDevicesConfig(devices', objId', objType',
                                              connected', objTags')
           /\ opcuaVariables' =
                 IF built
                 THEN initializeOPCUADevice(opcuaVariables, s, newId,
                                            TagLists[tl], out[2])
                 ELSE opcuaVariables
           /\ modbusClients' =
                 IF built /\ out[1]
                 THEN initializeModbusClient(modbusClients, s, newId)
                 ELSE modbusClients
           /\ timers' =
                 IF built /\ out[1]
                 THEN startDevicePolling(timers, s)
                 ELSE timers
    /\ UNCHANGED << mainPc, portOpen, sinkValue, cyc >>

\* a lookup that falls back to the first device when the id is not found
FindIndexOrFirst(id) ==
    IF \E i \in 1..Len(devices) : objId[devices[i]] = id
    THEN Min({ i \in 1..Len(devices) : objId[devices[i]] = id })
    ELSE IF Len(devices) > 0 THEN 1 ELSE 0

\* devices.findIndex(d => d.id === deviceId), 0 for -1
FindIndex(id) ==
    IF \E i \in 1..Len(devices) : objId[devices[i]] = id
    THEN Min({ i \in 1..Len(devices) : objId[devices[i]] = id })
    ELSE 0

Splice(seq, i) ==
    [j \in 1..(Len(seq) - 1) |-> IF j < i THEN seq[j] ELSE seq[j + 1]]

\* DELETE /api/devices/:id with an unknown id, lines 89-94: 404
DeleteUnknown(id) ==
    /\ Listening
    /\ FindIndex(id) = 0
    /\ UNCHANGED vars

\* DELETE /api/devices/:id, lines 87-113
DeleteDevice(id) ==
    /\ Listening
    /\ FindIndex(id) # 0
    /\ opcuaVariables' = removeDeviceVariables(opcuaVariables, id)
    /\ LET client == modbusClients[id]
       IN  IF client # 0
           THEN /\ portOpen' = ClosePort(portOpen, client)
                /\ connected' = CloseFlag(connected, portOpen, client)
                /\ modbusClients' = [modbusClients EXCEPT ![id] = 0]
           ELSE UNCHANGED << portOpen, connected, modbusClients >>
    /\ devices' = Splice(devices, FindIndex(id))
    /\ configFile' = saveDevicesConfig(devices', objId, objType, connected',
                                       objTags)
    /\ UNCHANGED << mainPc, nObjs, objId, objType, objTags, currentValue, sinkValue,
                    timers, cyc >>

(* ----------------------------- poll cycle ----------------------------- *)
RegisterTypes == {"holding", "input", "coil", "discrete"}

\* the for loop of readDeviceData from tag i on: the first tag whose
\* registerType issues a read (any other leaves data undefined), 0 for none
NextRead(tags, i) ==
    IF \E j \in i..Len(tags) : tags[j].registerType \in RegisterTypes
    THEN Min({ j \in i..Len(tags) : tags[j].registerType \in RegisterTypes })
    ELSE 0

\* readDeviceData, lines 278-289: the loop reaches tag i of device d; the
\* invocation awaits the read of the next readable tag, or returns
LoopFrom(d, client, i, err, got) ==
    IF NextRead(TagsOf(d), i) = 0
    THEN Idle
    ELSE [pc |-> "read", dev |-> d, client |-> client,
          idx |-> NextRead(TagsOf(d), i), err |-> err, got |-> got]

GotNone(d) == [i \in 1..Len(TagsOf(d)) |-> Undef]

\* the invocations in flight
Cycles == BagToSet(cyc)

\* invocation r goes on as r2, or has returned when r2 is Idle
Step(r, r2) ==
    IF r2 = Idle
    THEN cyc (-) SetToBag({r})
    ELSE (cyc (-) SetToBag({r})) (+) SetToBag({r2})

\* connectToDevice, lines 262-266: the catch of a failed open
connectFailed(cn, d) == [cn EXCEPT ![d] = FALSE]

\* one client shared by all devices: that of the first device of the array
ClientOfFirst(s) ==
    IF Len(devices) = 0 THEN 0 ELSE modbusClients[objId[devices[1]]]

\* the client of a device: modbusClients.get(device.id), 0 for undefined
ClientOf(s) == modbusClients[objId[s]]

\* a timer of device object s fires: readDeviceData(device), lines 269-289,
\* up to its first await
Tick(s) ==
    /\ timers[s] > 0
    /\ LET client == ClientOf(s)
           \* connectToDevice awaits an open only for the types it knows; for
           \* any other it sets the flag and returns true at once
           opens == ~connected[s] /\ objType[s] \in Transports
           next ==
               IF client = 0 THEN Idle
               ELSE IF opens
                    THEN [pc |-> "connect", dev |-> s, client |-> client,
                          idx |-> 0, err |-> "none", got |-> GotNone(s)]
                    ELSE LoopFrom(s, client, 1, "none", GotNone(s))
       IN  /\ connected' = IF client # 0 /\ ~opens
                            THEN [connected EXCEPT ![s] = TRUE]
                            ELSE connected
           /\ IF next = Idle
              THEN UNCHANGED cyc
              ELSE /\ BagCardinality(cyc) < MaxCycles
                   /\ cyc' = cyc (+) SetToBag({next})
    /\ UNCHANGED << mainPc, configFile, devices, nObjs, objId, objType, objTags,
                    currentValue, modbusClients, portOpen,
                    opcuaVariables, sinkValue, timers >>

\* connectToDevice, lines 246-266, from the await of connectTCP /
\* connectRTUBuffered on, then readDeviceData lines 275-289
ConnectDone(c, ok) ==
    /\ c.pc = "connect"
    /\ LET d == c.dev
           client == c.client
       IN  IF ok
           THEN /\ portOpen' = [portOpen EXCEPT ![client] = TRUE]
                /\ connected' = [connected EXCEPT ![d] = TRUE]
                /\ cyc' = Step(c, LoopFrom(d, client, 1, "none", GotNone(d)))
           ELSE /\ portOpen' = [portOpen EXCEPT ![client] = FALSE]
                /\ connected' = connectFailed(connected, d)
                /\ cyc' = Step(c, Idle)
    /\ UNCHANGED << mainPc, configFile, devices, nObjs, objId, objType, objTags,
                    currentValue, modbusClients, opcuaVariables, sinkValue,
                    timers >>

\* readDeviceData, lines 306-311: the catch inside the loop body
ReadCatch(c, why) ==
    LET d == c.dev
        client == c.client
    IN  /\ connected' =
              CloseFlag([connected EXCEPT ![d] = FALSE], portOpen, client)
        /\ portOpen' = ClosePort(portOpen, client)
        /\ cyc' = Step(c, [c EXCEPT !.pc = "close",
                                     !.err = IF @ = "none" THEN why ELSE @])

\* where the loop goes after the body of tag i ended without an exception
AfterTag(r, value) ==
    LoopFrom(r.dev, r.client, r.idx + 1, r.err,
             [r.got EXCEPT ![r.idx] = value])

\* a loop that tries the tag of a caught exception again
AfterCatchRetry(r) == LoopFrom(r.dev, r.client, r.idx, r.err, r.got)

\* where the loop goes after the catch of tag i: the catch is inside the
\* for loop, which goes on with the next tag
AfterCatch(r) == LoopFrom(r.dev, r.client, r.idx + 1, r.err, r.got)

\* the variable a value of tag name n of device d is pushed to:
\* opcuaVariables.get(device.id)?.get(tag.name), 0 for undefined
VariableOf(d, n) == opcuaVariables[objId[d]][n]

\* the tag object a decoded value is stored in
StoreValue(cv, d, i, value) == [cv EXCEPT ![d][i] = value]

\* readDeviceData, lines 280-312, from the await of the read of tag idx on:
\* ok: the read resolved with data; sinkOk: setValueFromSource returned
ReadDone(c, ok, sinkOk) ==
    /\ c.pc = "read"
    /\ \E data \in Answers(TagsOf(c.dev)[c.idx]) :
       LET d == c.dev
           client == c.client
           i == c.idx
           tag == TagsOf(d)[i]
           value == convertModbusData(data, tag.dataType)
           variable == VariableOf(d, tag.name)
       IN  /\ ok => portOpen[client]
           /\ (~sinkOk) => (ok /\ variable # 0)
           /\ IF ~ok
              THEN /\ ReadCatch(c, "read")
                   /\ UNCHANGED << currentValue, sinkValue >>
              ELSE /\ currentValue' = StoreValue(currentValue, d, i, value)
                   /\ IF variable = 0
                      THEN /\ cyc' = Step(c, AfterTag(c, value))
                           /\ UNCHANGED << sinkValue, connected, portOpen >>
                      ELSE IF sinkOk
                      THEN /\ sinkValue' =
                                [sinkValue EXCEPT ![variable][tag.name] = value]
                           /\ cyc' = Step(c, AfterTag(c, value))
                           /\ UNCHANGED << connected, portOpen >>
                      ELSE /\ ReadCatch(c, "sink")
                           /\ UNCHANGED sinkValue
    /\ UNCHANGED << mainPc, configFile, devices, nObjs, objId, objType, objTags,
                    modbusClients, opcuaVariables, timers >>

\* readDeviceData, lines 310-313: await client.close() returned (or threw,
\* swallowed); the for loop goes on with the next tag
CloseDone(c) ==
    /\ c.pc = "close"
    /\ cyc' = Step(c, AfterCatch(c))
    /\ UNCHANGED << mainPc, configFile, devices, nObjs, objId, objType, objTags,
                    connected, currentValue, modbusClients, portOpen,
                    opcuaVariables, sinkValue, timers >>

\* the transport of client s drops: its "close" handler, lines 232-235
PortClosed(s) ==
    /\ portOpen[s]
    /\ portOpen' = ClosePort(portOpen, s)
    /\ connected' = CloseFlag(connected, portOpen, s)
    /\ UNCHANGED << mainPc, configFile, devices, nObjs, objId, objType, objTags,
                    currentValue, modbusClients, opcuaVariables, sinkValue,
                    timers, cyc >>

\* client s emits "error": its handler, lines 227-230
PortError(s) ==
    /\ portOpen[s]
    /\ connected[s]
    /\ connected' = [connected EXCEPT ![s] = FALSE]
    /\ UNCHANGED << mainPc, configFile, devices, nObjs, objId, objType, objTags,
                    currentValue, modbusClients, portOpen, opcuaVariables,
                    sinkValue, timers, cyc >>

(* --------------------------- specification ---------------------------- *)
Next ==
    \/ MainLoad
    \/ \E j \in 0..MaxObjs, k \in 0..MaxTagCount : MainInitDevices(j, k)
    \/ MainStartPolling
    \/ PostInvalid
    \/ \E id \in 0..NumIds, conn \in BOOLEAN, tl \in PostTagLists,
          ok \in BOOLEAN, k \in 0..MaxTagCount :
             PostDevice("tcp", id, conn, tl, << ok, k >>)
    \/ \E id \in AllIds : DeleteUnknown(id)
    \/ \E id \in AllIds : DeleteDevice(id)
    \/ \E s \in Slots : Tick(s)
    \/ \E c \in Cycles, ok \in BOOLEAN : ConnectDone(c, ok)
    \/ \E c \in Cycles, ok \in BOOLEAN, sinkOk \in BOOLEAN :
          ReadDone(c, ok, sinkOk)
    \/ \E c \in Cycles : CloseDone(c)
    \/ \E s \in Slots : PortClosed(s)
    \/ \E s \in Slots : PortError(s)

Spec == Init /\ [][Next]_vars

(* ----- startup interleaved with add requests, the sink never failing --- *)
NextStartup ==
    \/ MainLoad
    \/ MainInitDevices(Len(devices), 0)
    \/ MainStartPolling
    \/ PostInvalid
    \/ \E id \in 0..NumIds, conn \in BOOLEAN, tl \in PostTagLists :
          PostDevice("tcp", id, conn, tl, << TRUE, Len(TagLists[tl]) >>)

SpecStartup == Init /\ [][NextStartup]_vars

(* --- polling of one configured device: no API calls, and the transport - *)
(* --- emits no "error" or "close" of its own                            - *)
PollConfigFiles ==
    { [valid |-> TRUE, devs |-> << CfgRec(1, FALSE, 1) >>] }

InitPoll == InitWith(PollConfigFiles)

Startup ==
    \/ MainLoad
    \/ \E j \in 0..MaxObjs, k \in 0..MaxTagCount : MainInitDevices(j, k)
    \/ MainStartPolling

NextPoll ==
    \/ Startup
    \/ \E s \in Slots : Tick(s)
    \/ \E c \in Cycles, ok \in BOOLEAN : ConnectDone(c, ok)
    \/ \E c \in Cycles, ok \in BOOLEAN, sinkOk \in BOOLEAN :
          ReadDone(c, ok, sinkOk)
    \/ \E c \in Cycles : CloseDone(c)

SpecPoll == InitPoll /\ [][NextPoll]_vars

(* ---- two devices: the transport of one never opens, the other's does -- *)
TwoConfigFiles ==
    { [valid |-> TRUE, devs |-> << CfgRec(1, FALSE, 1), CfgRec(2, FALSE, 1) >>] }

InitTwo == InitWith(TwoConfigFiles)

\* the endpoint of device object 1 refuses every connection
Reachable(s) == s # 1

NextTwo ==
    \/ Startup
    \/ \E s \in Slots : Tick(s)
    \/ \E c \in Cycles : ConnectDone(c, Reachable(c.dev))
    \/ \E c \in Cycles, ok \in BOOLEAN, sinkOk \in BOOLEAN :
          ReadDone(c, ok, sinkOk)
    \/ \E c \in Cycles : CloseDone(c)
    \/ \E s \in Slots : PortClosed(s)
    \/ \E s \in Slots : PortError(s)

SpecTwo == InitTwo /\ [][NextTwo]_vars

\* setInterval fires every timer again and again; a connect, a read and a
\* close that were issued are answered; and the reads of each tag of a
\* device whose transport works do not fail for ever
FairTwo ==
    /\ \A s \in Slots : SF_vars(Tick(s))
    /\ WF_vars(\E c \in Cycles : ConnectDone(c, Reachable(c.dev)))
    /\ WF_vars(\E c \in Cycles, ok \in BOOLEAN, sinkOk \in BOOLEAN :
                  ReadDone(c, ok, sinkOk))
    /\ WF_vars(\E c \in Cycles : CloseDone(c))
    /\ \A i \in 1..MaxTagCount :
          SF_vars(\E c \in Cycles : c.idx = i /\ ReadDone(c, TRUE, TRUE))

SpecTwoFair == SpecTwo /\ FairTwo

(* ------- polling of one configured device with removal requests ------ *)
NextRemove ==
    \/ NextPoll
    \/ \E id \in AllIds : DeleteUnknown(id)
    \/ \E id \in AllIds : DeleteDevice(id)

SpecRemove == InitPoll /\ [][NextRemove]_vars

(* ------------- startup and add requests, the sink may fail ------------ *)
\* the tag lists of the bodies POSTed: one tag, none, two of one name
AddTagLists == {2, 3, 4}

NextAdd ==
    \/ Startup
    \/ PostInvalid
    \/ \E id \in 0..NumIds, conn \in BOOLEAN, tl \in AddTagLists,
          ok \in BOOLEAN, k \in 0..MaxTagCount :
             PostDevice("tcp", id, conn, tl, << ok, k >>)

SpecAdd == Init /\ [][NextAdd]_vars

(* ----- polling of one configured device of a known or another type ---- *)
ConnectConfigFiles ==
    { [valid |-> TRUE, devs |-> << CfgRecOf(1, ty, FALSE, 1) >>] :
         ty \in {"tcp", "other"} }

InitConnect == InitWith(ConnectConfigFiles)

SpecConnect == InitConnect /\ [][NextPoll]_vars

(* -------- polling of one configured device with one tag of a kind ----- *)
CodecTagLists == {5, 6, 7, 8, 9}

CodecConfigFiles ==
    { [valid |-> TRUE, devs |-> << CfgRec(1, FALSE, tl) >>] :
         tl \in CodecTagLists }

InitCodec == InitWith(CodecConfigFiles)

SpecCodec == InitCodec /\ [][NextPoll]_vars

(* ---- polling of one configured device with one register tag of a type - *)
WordsTagLists == {2, 5, 6, 10, 11, 12, 13}

WordsConfigFiles ==
    { [valid |-> TRUE, devs |-> << CfgRec(1, FALSE, tl) >>] :
         tl \in WordsTagLists }

InitWords == InitWith(WordsConfigFiles)

SpecWords == InitWords /\ [][NextPoll]_vars

(* ------------------------------- claims ------------------------------- *)
\* the invocations of readDeviceData in flight for device object d
InFlight(d) ==
    LET S == { r \in Cycles : r.dev = d }
    IN  BagCardinality([r \in S |-> cyc[r]])

\* invocation r takes this step / is new or has moved to r in this step
Acts(r) == CopiesIn(r, cyc') < CopiesIn(r, cyc)
Arrives(r) == CopiesIn(r, cyc') > CopiesIn(r, cyc)

\* a new invocation starts in this step
Starts == BagCardinality(cyc') > BagCardinality(cyc)

\* device object s was taken out of the devices array
Removed(s) == s <= nObjs /\ ~Registered(s)

\* C1: for every device at most one read cycle (readDeviceData invocation)
\* is in flight at any time.
C1_AtMostOneCycleInFlight == \A d \in Slots : InFlight(d) <= 1

\* C2: when the read of tag N fails within a cycle, the device becomes
\* Disconnected, the failing step writes no tag value, and the cycle issues
\* no read for any later tag: all it still does is close and return.
C2_FailureAbortsCycle ==
    /\ [][\A r \in Cycles :
            (Acts(r) /\ r.pc = "read" /\ r.err = "none"
               /\ Arrives([r EXCEPT !.pc = "close", !.err = "read"]))
            => (~connected'[r.dev]
                  /\ currentValue'[r.dev] = currentValue[r.dev])]_vars
    /\ [](\A r \in Cycles : r.err = "read" => r.pc = "close")

\* C3: once a device object is removed, no poll cycle (no connect attempt,
\* no register read) is started for it again, whatever happens afterwards.
C3_NoCycleAfterRemove ==
    [][Starts => \A r \in BagToSet(cyc') : Arrives(r) => ~Removed(r.dev)']_vars

\* C4: a cycle in flight when its device is removed writes no tag value of
\* the removed device and pushes no value to the sink.
C4_NoUpdateAfterRemove ==
    [][/\ \A s \in Slots : Removed(s) => currentValue'[s] = currentValue[s]
       /\ \A r \in Cycles :
             (Acts(r) /\ Removed(r.dev)) => sinkValue' = sinkValue]_vars

\* C5: an add with an id already in the Registry leaves the devices array
\* unchanged, so the ids of the registered devices are pairwise distinct.
C5_IdsDistinct ==
    \A i, j \in 1..Len(devices) :
        i # j => objId[devices[i]] # objId[devices[j]]

\* C6: when the sink raises while a decoded value is pushed to it, the
\* device's connection state and its connection stay as they were.
C6_SinkFailureIsContained ==
    [][\A r \in Cycles :
          (Acts(r) /\ r.pc = "read" /\ r.err = "none"
             /\ Arrives([r EXCEPT !.pc = "close", !.err = "sink"]))
          => (connected'[r.dev] = connected[r.dev]
                /\ portOpen'[r.client] = portOpen[r.client])]_vars

\* C7: with two devices of distinct ids, the one whose transport never opens
\* is never Connected and none of its tag values is ever written, and a step
\* of a cycle of one device changes neither the connection state, the client
\* nor the tag values of the other.
C7_FailingDeviceStaysDown ==
    /\ ~connected[1]
    /\ ~portOpen[1]
    /\ \A i \in DOMAIN currentValue[1] : currentValue[1][i] = Undef

C7_NoInterference ==
    \A r \in Cycles \cup BagToSet(cyc') :
        (Acts(r) \/ Arrives(r)) =>
            \A e \in Slots \ {r.dev} :
                /\ connected'[e] = connected[e]
                /\ portOpen'[e] = portOpen[e]
                /\ currentValue'[e] = currentValue[e]
                /\ sinkValue'[e] = sinkValue[e]

\* a cycle of device 2 has just stored the value it decoded for tag 1
C7_Updated ==
    \E r \in Cycles : r.dev = 2 /\ r.pc = "read" /\ r.got[1] # Undef

C8_OneTimerPerDevice ==
    /\ \A s \in Slots : timers[s] <= 1
    /\ mainPc = "running" => \A s \in Slots : Registered(s) => timers[s] = 1

\* C9: when a cycle returns with every tag read and no exception caught,
\* the device is Connected and every tag holds the value that cycle decoded.
C9_CleanCycleLeavesDecodedValues ==
    [][\A r \in Cycles :
          (Acts(r) /\ ~Starts /\ r.pc = "read" /\ r.err = "none"
             /\ BagCardinality(cyc') < BagCardinality(cyc))
          => /\ connected'[r.dev]
             /\ \A i \in 1..(r.idx - 1) :
                   currentValue'[r.dev][i] = r.got[i]]_vars

\* C10: a device's connected flag becomes true only by a connect of one of
\* its cycles succeeding, never by what a POST body or devices.json holds.
C10_ConnectedOnlyByConnect ==
    [][\A s \in Slots :
          (~connected[s] /\ connected'[s])
          => \E r \in Cycles : Acts(r) /\ r.pc = "connect" /\ r.dev = s]_vars

\* C11: once a device is removed, the port of the client that was made for
\* it is closed and is never open again, whatever was in flight for it.
C11_RemovedStaysClosed ==
    \A s \in Slots : Removed(s) => ~portOpen[s]

\* C12: every device in the devices array has at least one tag and no two of
\* its tags have the same name (an add with an empty tag list or with two
\* tags of one name is rejected).
C12_TagsNonEmptyAndDistinct ==
    \A s \in Slots :
        Registered(s) =>
            /\ Len(TagsOf(s)) > 0
            /\ \A i, j \in 1..Len(TagsOf(s)) :
                  i # j => TagsOf(s)[i].name # TagsOf(s)[j].name

\* C13: a call of connectToDevice that finds the device disconnected leaves
\* it connected only with the port of its client open, and a connect that
\* failed leaves it disconnected.
C13_ConnectedMatchesTransport ==
    [][/\ \A s \in Slots : (~connected[s] /\ connected'[s]) => portOpen'[s]
       /\ \A r \in Cycles :
             (Acts(r) /\ r.pc = "connect"
                /\ BagCardinality(cyc') < BagCardinality(cyc))
             => ~connected'[r.dev]]_vars

\* C14: when the connect of a cycle fails the cycle returns without a read,
\* no tag value and no sink value changes, the device is disconnected, and
\* nothing is left in flight that could connect it before its next tick.
C14_FailedConnectSkipsCycle ==
    [][\A r \in Cycles :
          (Acts(r) /\ r.pc = "connect"
             /\ BagCardinality(cyc') < BagCardinality(cyc))
          => /\ ~connected'[r.dev]
             /\ currentValue' = currentValue
             /\ sinkValue' = sinkValue
             /\ \A q \in BagToSet(cyc') :
                   ~(q.dev = r.dev /\ q.pc = "connect")]_vars

\* C15: a registered device that is disconnected re-attempts its connection
\* on every tick: whenever a timer of such a device can fire, the device has
\* a client, so that the tick issues a connect.
C15_TickRetriesConnect ==
    \A s \in Slots :
        (Registered(s) /\ ~connected[s] /\ timers[s] > 0) => ClientOf(s) # 0

\* C16: once startup is over every device in the devices array has a client
\* and a poll timer, also when the address space threw while the device was
\* being added.
C16_AddedDeviceIsPolled ==
    mainPc = "running" =>
        \A s \in Slots :
            Registered(s) => (timers[s] > 0 /\ modbusClients[objId[s]] = s)

\* C17: within one invocation of readDeviceData the tags are read one at a
\* time in their declared order: an invocation starts with its first readable
\* tag, the read it issues after the read of tag k ended (data stored, or
\* exception caught and close awaited) is that of the next readable tag after
\* k, and it returns only when no readable tag is left.
C17_TagsReadInOrder ==
    [][/\ Starts =>
             \A q \in BagToSet(cyc') :
                 (Arrives(q) /\ q.pc = "read")
                 => q.idx = NextRead(TagsOf(q.dev), 1)
       /\ \A r \in Cycles :
             Acts(r) =>
                /\ \A q \in BagToSet(cyc') :
                      Arrives(q) =>
                         /\ q.dev = r.dev
                         /\ q.client = r.client
                         /\ q.pc = "read" =>
                               q.idx = NextRead(TagsOf(r.dev), r.idx + 1)
                         /\ q.pc = "close" => (r.pc = "read" /\ q.idx = r.idx)
                         /\ q.pc \in {"read", "close"}
                /\ (r.pc \in {"read", "close"}
                      /\ BagCardinality(cyc') < BagCardinality(cyc))
                   => NextRead(TagsOf(r.dev), r.idx + 1) = 0]_vars

\* C17 witness: an invocation awaits the read of tag 2 having stored tag 1,
\* while another one awaits the read of tag 2 having caught a failure before
C17_Witness ==
    /\ \E r \in Cycles :
          r.pc = "read" /\ r.idx = 2 /\ r.err = "none" /\ r.got[1] # Undef
    /\ \E r \in Cycles : r.pc = "read" /\ r.idx = 2 /\ r.err = "read"

\* some device of the devices array has this id
Known(id) == \E s \in Slots : Registered(s) /\ objId[s] = id

\* C18: a DELETE whose id no device of the devices array has changes
\* nothing: the devices array, the client map, the ports, the connected
\* flags, the sink variables and devices.json stay as they were.
C18_UnknownRemoveChangesNothing ==
    [][\A id \in AllIds :
          ((DeleteUnknown(id) \/ DeleteDevice(id)) /\ ~Known(id))
          => UNCHANGED << devices, modbusClients, portOpen, connected,
                          opcuaVariables, sinkValue, configFile >>]_vars

\* C18 witness: a DELETE of an unknown id can arrive while a device is
\* registered, connected and being read
C18_Witness ==
    /\ Listening
    /\ \E id \in AllIds : ~Known(id) /\ FindIndex(id) = 0
    /\ \E s \in Slots :
          /\ Registered(s) /\ connected[s] /\ portOpen[s]
          /\ \E r \in Cycles : r.dev = s /\ r.pc = "read"

\* C19: the value stored for a uint32 tag is the unsigned number
\* w0 * 65536 + w1 of the two words read (never negative, its halves the two
\* words), and the value stored for an int32 tag is the same bit pattern as
\* two's complement.
C19_Decode32 ==
    \A s \in Slots : \A i \in 1..Len(currentValue[s]) :
        LET tag == TagsOf(s)[i]
            v == currentValue[s][i]
        IN  (Registered(s) /\ tag.registerType \in {"holding", "input"}
               /\ v # Undef)
            => /\ tag.dataType = "uint32" =>
                     /\ v[1] = "n"
                     /\ v[2] >= 0
                     /\ (v[2] \div TwoTo16) \in WideWords
                     /\ (v[2] % TwoTo16) \in WideWords
               /\ tag.dataType = "int32" =>
                     /\ v[1] = "n"
                     /\ \E w0 \in WideWords, w1 \in WideWords :
                           v[2] = (IF w0 >= TwoTo15 THEN w0 - TwoTo16 ELSE w0)
                                     * TwoTo16 + w1

\* C20: the value stored for a tag read from a coil or a discrete input is a
\* boolean, whatever the tag's dataType is.
C20_BitTagsHoldBooleans ==
    \A s \in Slots : \A i \in 1..Len(currentValue[s]) :
        (Registered(s) /\ TagsOf(s)[i].registerType \in {"coil", "discrete"}
           /\ currentValue[s][i] # Undef)
        => currentValue[s][i] \in { Bool(b) : b \in Bits }

\* the register count of each data type as the specification tabulates it
\* (its float32 is the code's "float")
C21_RegisterCount(dataType) ==
    CASE dataType \in {"int16", "uint16", "boolean"} -> 1
      [] dataType \in {"int32", "uint32", "float"} -> 2

\* the sequences of n register words
C21_WordSeqs(n) ==
    LET W == { Num(w) : w \in Words \cup WideWords \cup BoundaryWords }
    IN  IF n = 1 THEN { << a >> : a \in W }
        ELSE { << a, b >> : a \in W, b \in W }

C22_Encode16(v) == v % TwoTo16

\* what the specification has a one-register word decode to
C22_Decode16(w, dataType) ==
    CASE dataType = "uint16" -> Num(w)
      [] dataType = "int16" -> Num(IF w < TwoTo15 THEN w ELSE w - TwoTo16)
      [] dataType = "boolean" -> Bool(w # 0)

C22_Types == {"uint16", "int16", "boolean"}

\* C22: a word decodes as uint16 to itself, as int16 to itself below 32768
\* and to w - 65536 from there on, and as boolean to whether it is nonzero;
\* the encodings of the int16 and uint16 values at the ends of their ranges
\* decode to these values; and the value stored for a one-register tag of
\* these types is the decoding of a word its register can hold.
C22_Decode16Bit ==
    /\ \A w \in Words \cup BoundaryWords, dt \in C22_Types :
          convertModbusData(<< Num(w) >>, dt) = C22_Decode16(w, dt)
    /\ \A v \in {-TwoTo15, -1, 0, 1, TwoTo15 - 1} :
          convertModbusData(<< Num(C22_Encode16(v)) >>, "int16") = Num(v)
    /\ \A v \in {0, 1, TwoTo15 - 1, TwoTo15, TwoTo16 - 1} :
          convertModbusData(<< Num(C22_Encode16(v)) >>, "uint16") = Num(v)
    /\ \A s \in Slots : \A i \in 1..Len(currentValue[s]) :
          LET tag == TagsOf(s)[i]
          IN  (Registered(s) /\ tag.registerType \in {"holding", "input"}
                 /\ tag.dataType \in C22_Types
                 /\ currentValue[s][i] # Undef)
              => \E w \in RegisterWords(tag.address) :
                    currentValue[s][i] = C22_Decode16(w, tag.dataType)

\* C22 witness: an int16 tag holds the most negative value, read as 32768
C22_Witness ==
    \E s \in Slots :
        /\ Registered(s)
        /\ Len(TagsOf(s)) = 1
        /\ TagsOf(s)[1].dataType = "int16"
        /\ currentValue[s][1] = Num(-TwoTo15)

\* C23: a device whose connected flag is true has a client whose port is
\* open.
C23_ConnectedHasOpenPort ==
    \A s \in Slots :
        (s <= nObjs /\ connected[s])
        => (ClientOf(s) # 0 /\ portOpen[ClientOf(s)])

\* the ids that have a client in modbusClients / a device in the devices array
ClientIds == { i \in AllIds : modbusClients[i] # 0 }
DeviceIds == { objId[s] : s \in { t \in Slots : Registered(t) } }

\* C24: once startup is over, the ids with a client in modbusClients are the
\* ids of the devices of the devices array, and every such device has a
\* variable in opcuaVariables for each of its tags.
C24_CollectionsAgree ==
    mainPc = "running" =>
        /\ ClientIds = DeviceIds
        /\ \A s \in Slots :
              Registered(s) =>
                 \A i \in 1..Len(TagsOf(s)) :
                    opcuaVariables[objId[s]][TagsOf(s)[i].name] # 0

====
